---- MODULE Spec2Model ----
(***************************************************************************)
(* RealTimeNetwork-Dashboard, src/dashboard.py.                            *)
(*                                                                         *)
(* One PacketProcessor shared by two threads: the capture thread, on which *)
(* scapy's sniff calls process_packet once per packet, and the Streamlit   *)
(* script thread, which runs main over and over (st.rerun) and reads the   *)
(* store through get_dataframe.  Each action below is one step of one of   *)
(* the two threads between two points where the other can be observed.     *)
(***************************************************************************)
EXTENDS Integers, Sequences, FiniteSets, TLC

(***************************************************************************)
(* Bounds of the model.  Capacity stands for the retention limit of line   *)
(* 100 (10000 in the source), scaled so that eviction happens.             *)
(***************************************************************************)
Capacity == 2
MaxPackets == 3
MaxRuns == 1
MaxAlerts == 2
MaxProto == 255

VARIABLES
  packet_data,    \* self.packet_data: the retained records, oldest first
  packet_count,   \* self.packet_count
  alerts,         \* self.alerts: the registered (condition, message) rules
  lock,           \* owner of self.lock: "free", "capture" or "main"
  cpc,            \* capture thread: where process_packet stands
  packet,         \* capture thread: the packet handed over by sniff
  packet_info,    \* capture thread: the dict being built
  ai,             \* capture thread: index of check_alerts' for loop
  geo,            \* capture thread: outcome of the geocode call of this packet
  mpc,            \* script thread: where main stands
  df,             \* script thread: the DataFrame get_dataframe returned
  runs,           \* script thread: reruns of main so far
  now,            \* datetime.now(), a logical clock that ticks per packet
  appended,       \* history: every record ever appended, in append order
  fired,          \* history: every st.warning emitted by check_alerts
  prev,           \* history: timestamps of the snapshot of the previous run
  log             \* history: the logger.error calls of the latest process_packet

vars == <<packet_data, packet_count, alerts, lock, cpc, packet, packet_info,
          ai, geo, mpc, df, runs, now, appended, fired, prev, log>>

storeVars == <<packet_data, packet_count, alerts>>
captureVars == <<cpc, packet, packet_info, ai, geo, now>>
mainVars == <<mpc, df, runs, prev>>

----------------------------------------------------------------------------
(* Raw packets, as scapy hands them to prn.                                *)

\* two hosts: the geocoder knows a place for the first and none for the second
KnownAddr == "192.0.2.1"
LocalAddr == "10.0.0.1"

NoPacket == [ip |-> FALSE, bad |-> FALSE, src |-> "", dst |-> "", proto |-> 0,
             tcp |-> FALSE, udp |-> FALSE, len |-> 0, sport |-> 0,
             dport |-> 0, flags |-> 0]

Arp == [NoPacket EXCEPT !.len = 42]
Icmp == [NoPacket EXCEPT !.ip = TRUE, !.src = KnownAddr, !.dst = LocalAddr,
         !.proto = 1, !.len = 60]
TcpLarge == [NoPacket EXCEPT !.ip = TRUE, !.src = LocalAddr,
             !.dst = KnownAddr, !.proto = 6, !.tcp = TRUE, !.len = 1500,
             !.sport = 1234, !.dport = 80, !.flags = 2]
TcpSmall == [TcpLarge EXCEPT !.len = 60]
Udp == [NoPacket EXCEPT !.ip = TRUE, !.src = LocalAddr, !.dst = KnownAddr,
        !.proto = 17, !.udp = TRUE, !.len = 200, !.sport = 5353,
        !.dport = 5353]
\* an IP packet whose fields cannot be read: building its record raises
Truncated == [Icmp EXCEPT !.bad = TRUE]

Packets == {Arp, Icmp, TcpLarge, TcpSmall, Udp, Truncated}

\* two more: a TCP segment carried in a UDP tunnel, which has both layers
\* (the IP header says UDP), and a GRE packet, whose protocol has no name
Tunnel == [Udp EXCEPT !.tcp = TRUE, !.len = 110, !.sport = 40000,
           !.dport = 443, !.flags = 16]
Gre == [Icmp EXCEPT !.proto = 47, !.len = 84]

AllPackets == Packets \cup {Tunnel, Gre}

----------------------------------------------------------------------------
(* PacketProcessor.__init__ and the pure helpers.                          *)

protocol_map == (1 :> "ICMP") @@ (6 :> "TCP") @@ (17 :> "UDP")

start_time == 0

\* get_protocol_name with a fallback that drops the number
NameWithoutNumber(protocol_num) ==
  IF protocol_num \in DOMAIN protocol_map
    THEN protocol_map[protocol_num]
    ELSE "OTHER"

\* lines 41-43
get_protocol_name(protocol_num) ==
  IF protocol_num \in DOMAIN protocol_map
    THEN protocol_map[protocol_num]
    ELSE "OTHER(" \o ToString(protocol_num) \o ")"

\* IP_in without the test of line 58: every packet is processed
AnyPacket(p) == TRUE

\* line 58: IP in packet
IP_in(p) == p.ip

\* lines 60-67: the base fields of the dict
BaseInfo(p, t) ==
  [timestamp |-> <<"datetime", t>>,
   source |-> p.src,
   destination |-> p.dst,
   protocol |-> get_protocol_name(p.proto),
   size |-> p.len,
   time_relative |-> t - start_time]

\* TransportInfo with the two tests the other way round
TransportInfoUdpFirst(p) ==
  IF p.udp
    THEN [src_port |-> p.sport, dst_port |-> p.dport]
    ELSE IF p.tcp
      THEN [src_port |-> p.sport, dst_port |-> p.dport,
            tcp_flags |-> p.flags]
      ELSE <<>>

\* lines 70-82: packet_info.update(...) for TCP, else for UDP
TransportInfo(p) ==
  IF p.tcp
    THEN [src_port |-> p.sport, dst_port |-> p.dport, tcp_flags |-> p.flags]
    ELSE IF p.udp
      THEN [src_port |-> p.sport, dst_port |-> p.dport]
      ELSE <<>>

\* dict.update: the keys of upd win
Update(d, upd) ==
  [k \in DOMAIN d \cup DOMAIN upd |-> IF k \in DOMAIN upd THEN upd[k] ELSE d[k]]

\* line 86: what geolocator.geocode(address) may do: return a location for
\* an address it knows, None for any other, or raise (no network, a timeout)
GeoOutcomes == {"location", "none", "raise"}
geocode(address) ==
  IF address = KnownAddr THEN {"location", "raise"} ELSE {"none", "raise"}
Latitude == 51
Longitude == 7

\* lines 87-89
GeoInfo(info, outcome) ==
  IF outcome = "location"
    THEN Update(info, [latitude |-> Latitude, longitude |-> Longitude])
    ELSE info

----------------------------------------------------------------------------
(* Alert rules.  main registers LargeTcp (lines 207-210); add_alert takes  *)
(* any callable, WebPort being one that reads a key only TCP and UDP       *)
(* records carry.                                                          *)

LargeTcpMsg == "Large TCP packet detected"
WebPortMsg == "Web traffic"
LargeTcpRule == [cond |-> "LargeTcp", msg |-> LargeTcpMsg]
WebPortRule == [cond |-> "WebPort", msg |-> WebPortMsg]
Rules == {LargeTcpRule, WebPortRule}

\* a third rule of a caller, lambda pkt: pkt['size'] < 100
SmallMsg == "Small packet"
SmallRule == [cond |-> "Small", msg |-> SmallMsg]

\* the call condition(packet_info): "true", "false", or "raise"
Condition(cond, info) ==
  IF cond = "LargeTcp"
    THEN IF info.protocol = "TCP" /\ info.size > 1000 THEN "true" ELSE "false"
    ELSE IF cond = "Small"
      THEN IF info.size < 100 THEN "true" ELSE "false"
      ELSE IF "dst_port" \notin DOMAIN info THEN "raise"
           ELSE IF info.dst_port = 80 THEN "true" ELSE "false"

\* line 47
add_alert(rule) == alerts' = Append(alerts, rule)

----------------------------------------------------------------------------
(* pandas: DataFrame(list of dicts) and to_datetime.                       *)

NaN == -1

to_datetime(v) == <<"datetime64", v[2]>>

Columns(rows) == UNION {DOMAIN rows[i] : i \in DOMAIN rows}

\* one row per dict over the union of the keys, NaN where a dict lacks the
\* key; a column of datetime objects is stored as datetime64
FrameRow(d, cols) ==
  [c \in cols |-> IF c \notin DOMAIN d THEN NaN
                  ELSE IF c = "timestamp" THEN to_datetime(d[c]) ELSE d[c]]

DataFrame(rows) ==
  [live |-> FALSE,
   rows |-> [i \in DOMAIN rows |-> FrameRow(rows[i], Columns(rows))]]

\* the rows a frame shows
Rows(frame) == IF frame.live THEN packet_data ELSE frame.rows

----------------------------------------------------------------------------
Init ==
  /\ packet_data = <<>>
  /\ packet_count = 0
  /\ alerts = <<>>
  /\ lock = "free"
  /\ cpc = "sniff"
  /\ packet = NoPacket
  /\ packet_info = <<>>
  /\ ai = 1
  /\ geo = "pending"
  /\ mpc = "get"
  /\ df = DataFrame(<<>>)
  /\ runs = 0
  /\ now = 0
  /\ appended = <<>>
  /\ fired = <<>>
  /\ prev = <<>>
  /\ log = <<>>

----------------------------------------------------------------------------
(* The capture thread: sniff(prn=processor.process_packet), lines 55-104.  *)

\* str(e) of the exceptions that reach a handler
ParseError == "truncated packet"
KeyError == "'dst_port'"
GeocoderError == "service timed out"

\* the locals of process_packet die when it returns
Return ==
  /\ cpc' = "sniff"
  /\ packet' = NoPacket
  /\ packet_info' = <<>>
  /\ ai' = 1
  /\ geo' = "pending"

\* ExceptHandler without the try of line 57: the exception leaves
\* process_packet and ends the capture thread
Uncaught(e) ==
  /\ lock' = IF lock = "capture" THEN "free" ELSE lock
  /\ log' = log
  /\ cpc' = "dead"
  /\ UNCHANGED <<packet, packet_info, ai, geo>>

\* lines 103-104: an exception leaves the with block, which releases the
\* lock, and is logged; process_packet then returns
ExceptHandler(e) ==
  /\ lock' = IF lock = "capture" THEN "free" ELSE lock
  /\ log' = Append(log, "Error processing packet: " \o e)
  /\ Return

\* line 164: sniff hands the next packet to process_packet
Sniff(p) ==
  /\ cpc = "sniff"
  /\ now < MaxPackets
  /\ now' = now + 1
  /\ packet' = p
  /\ cpc' = "try"
  /\ log' = <<>>
  /\ UNCHANGED <<storeVars, lock, packet_info, ai, geo, mainVars,
                 appended, fired>>

\* line 164 raising: capture_packets has no try and no loop around sniff,
\* so the exception ends the capture thread (lines 163-167); the handle of
\* the thread is dropped at line 169 and no field of the processor is set
SourceFails ==
  /\ cpc = "sniff"
  /\ cpc' = "dead"
  /\ UNCHANGED <<storeVars, lock, packet, packet_info, ai, geo, now,
                 mainVars, appended, fired, log>>

\* line 58: a packet without an IP layer is skipped
TestIP ==
  /\ cpc = "try"
  /\ IF IP_in(packet)
       THEN cpc' = "lock" /\ UNCHANGED <<packet, packet_info, ai, geo>>
       ELSE Return
  /\ UNCHANGED <<storeVars, lock, now, mainVars, appended, fired, log>>

\* line 59: with self.lock, entered when no one holds the lock
CaptureMayLock == lock = "free"

AcquireLock ==
  /\ cpc = "lock"
  /\ CaptureMayLock
  /\ lock' = "capture"
  /\ cpc' = "build"
  /\ UNCHANGED <<storeVars, packet, packet_info, ai, geo, now, mainVars,
                 appended, fired, log>>

\* lines 60-67
BuildInfo ==
  /\ cpc = "build"
  /\ IF packet.bad
       THEN ExceptHandler(ParseError)
       ELSE /\ packet_info' = BaseInfo(packet, now)
            /\ cpc' = "transport"
            /\ UNCHANGED <<lock, log, packet, ai, geo>>
  /\ UNCHANGED <<storeVars, now, mainVars, appended, fired>>

\* lines 70-82
AddTransport ==
  /\ cpc = "transport"
  /\ packet_info' = Update(packet_info, TransportInfo(packet))
  /\ cpc' = "geo"
  /\ UNCHANGED <<storeVars, lock, packet, ai, geo, now, mainVars,
                 appended, fired, log>>

\* GeoFailed without the inner try of line 85: the lookup's exception
\* reaches the handler of line 103
GeoAborts(e) == ExceptHandler(e)

\* lines 90-91: the lookup raised; the inner except logs it and goes on
GeoFailed(e) ==
  /\ geo' = "raise"
  /\ log' = Append(log, "Error in geolocation: " \o e)
  /\ cpc' = "alerts"
  /\ UNCHANGED <<lock, packet, packet_info, ai>>

\* lines 85-91
Geocode(outcome) ==
  /\ cpc = "geo"
  /\ outcome \in geocode(packet.src)
  /\ IF outcome = "raise"
       THEN GeoFailed(GeocoderError)
       ELSE /\ geo' = outcome
            /\ packet_info' = GeoInfo(packet_info, outcome)
            /\ cpc' = "alerts"
            /\ UNCHANGED <<lock, log, packet, ai>>
  /\ UNCHANGED <<storeVars, now, mainVars, appended, fired>>

\* line 53: st.warning
Warn(message) ==
  fired' = Append(fired, [t |-> packet_info.timestamp[2], rule |-> ai,
                          msg |-> message])

\* LoopDone with a return after the first rule
LoopDoneEarly == ai > Len(alerts) \/ ai > 1

\* line 51: the for loop has gone through self.alerts
LoopDone == ai > Len(alerts)

\* lines 94, 51-53: one turn of the for loop over self.alerts
CheckAlert ==
  /\ cpc = "alerts"
  /\ IF LoopDone
       THEN /\ cpc' = "append"
            /\ UNCHANGED <<lock, log, packet, packet_info, ai, geo, fired>>
       ELSE LET result == Condition(alerts[ai].cond, packet_info) IN
            IF result = "raise"
              THEN ExceptHandler(KeyError) /\ UNCHANGED fired
              ELSE /\ IF result = "true"
                        THEN Warn(alerts[ai].msg)
                        ELSE UNCHANGED fired
                   /\ ai' = ai + 1
                   /\ UNCHANGED <<lock, log, cpc, packet, packet_info, geo>>
  /\ UNCHANGED <<storeVars, now, mainVars, appended>>

\* Appended with insert(0, record) in place of append
Prepended(list, record) == <<record>> \o list

\* line 96: list.append
Appended(list, record) == Append(list, record)

AppendRecord ==
  /\ cpc = "append"
  /\ packet_data' = Appended(packet_data, packet_info)
  /\ appended' = Append(appended, packet_info)
  /\ cpc' = "count"
  /\ UNCHANGED <<packet_count, alerts, lock, packet, packet_info, ai, geo,
                 now, mainVars, fired, log>>

\* Counted with the increment done twice
CountedTwice(n) == n + 2

\* Counted as the retained size: the counter stops at the limit
CountedRetained(n) == IF n < Capacity THEN n + 1 ELSE n

\* line 97
Counted(n) == n + 1

CountRecord ==
  /\ cpc = "count"
  /\ packet_count' = Counted(packet_count)
  /\ cpc' = "evict"
  /\ UNCHANGED <<packet_data, alerts, lock, packet, packet_info, ai, geo,
                 now, mainVars, appended, fired, log>>

\* Evicted with >= in place of > in the test of line 100
EvictedEarly(list) == IF Len(list) >= Capacity THEN Tail(list) ELSE list

\* Evicted with pop() in place of pop(0): the newest record is dropped
EvictedNewest(list) ==
  IF Len(list) > Capacity THEN SubSeq(list, 1, Len(list) - 1) ELSE list

\* lines 100-101
Evicted(list) == IF Len(list) > Capacity THEN Tail(list) ELSE list

Evict ==
  /\ cpc = "evict"
  /\ packet_data' = Evicted(packet_data)
  /\ cpc' = "exit"
  /\ UNCHANGED <<packet_count, alerts, lock, packet, packet_info, ai, geo,
                 now, mainVars, appended, fired, log>>

\* the end of the with block and of process_packet
ReleaseLock ==
  /\ cpc = "exit"
  /\ lock' = "free"
  /\ Return
  /\ UNCHANGED <<storeVars, now, mainVars, appended, fired, log>>

----------------------------------------------------------------------------
(* The script thread: main, lines 172-234, run again by every st.rerun.    *)

\* ReaderMayLock without the lock: get_dataframe reads at any time
ReaderNeverWaits == TRUE

\* line 108: with self.lock, entered when no one holds the lock
ReaderMayLock == lock = "free"

\* line 186 calls get_dataframe, which first takes the lock
GetDataframe ==
  /\ mpc = "get"
  /\ ReaderMayLock
  /\ lock' = "main"
  /\ mpc' = "copy"
  /\ UNCHANGED <<storeVars, captureVars, df, runs, prev, appended, fired, log>>

Ids(rows) == [i \in DOMAIN rows |-> rows[i].timestamp[2]]

\* Snapshot as return self.packet_data: the list itself, not a copy
LiveList == [live |-> TRUE, rows |-> <<>>]

\* line 109: what get_dataframe returns
Snapshot == DataFrame(packet_data)

CopyData ==
  /\ mpc = "copy"
  /\ df' = Snapshot
  /\ prev' = Ids(Rows(df))
  /\ lock' = "free"
  /\ mpc' = "viz"
  /\ UNCHANGED <<storeVars, captureVars, runs, appended, fired, log>>

\* line 125: df['timestamp'] = pd.to_datetime(df['timestamp'])
SetTimestamp(rows) ==
  [i \in DOMAIN rows |-> [rows[i] EXCEPT !.timestamp = to_datetime(@)]]

\* line 196: create_visualizations(df), lines 112-154
CreateVisualizations ==
  /\ mpc = "viz"
  /\ IF Len(Rows(df)) > 0
       THEN IF df.live
              THEN /\ packet_data' = SetTimestamp(packet_data)
                   /\ UNCHANGED df
              ELSE /\ df' = [df EXCEPT !.rows = SetTimestamp(@)]
                   /\ UNCHANGED packet_data
       ELSE UNCHANGED <<df, packet_data>>
  /\ mpc' = "alert"
  /\ UNCHANGED <<packet_count, alerts, lock, captureVars, runs, prev,
                 appended, fired, log>>

\* lines 207-210
MainAddAlert ==
  /\ mpc = "alert"
  /\ add_alert(LargeTcpRule)
  /\ mpc' = "rerun"
  /\ UNCHANGED <<packet_data, packet_count, lock, captureVars, df, runs,
                 prev, appended, fired, log>>

\* lines 233-234: sleep, then st.rerun starts main again
Rerun ==
  /\ mpc = "rerun"
  /\ runs < MaxRuns
  /\ runs' = runs + 1
  /\ mpc' = "get"
  /\ UNCHANGED <<storeVars, lock, captureVars, df, prev, appended, fired, log>>

\* add_alert as a caller other than main may use it: any rule, at any time
RegisterAlert(rule) ==
  /\ Len(alerts) < MaxAlerts
  /\ add_alert(rule)
  /\ UNCHANGED <<packet_data, packet_count, lock, captureVars, mainVars,
                 appended, fired, log>>

----------------------------------------------------------------------------
Capture ==
  \/ \E p \in Packets : Sniff(p)
  \/ TestIP
  \/ AcquireLock
  \/ BuildInfo
  \/ AddTransport
  \/ \E o \in GeoOutcomes : Geocode(o)
  \/ CheckAlert
  \/ AppendRecord
  \/ CountRecord
  \/ Evict
  \/ ReleaseLock

Main ==
  \/ GetDataframe
  \/ CopyData
  \/ CreateVisualizations
  \/ MainAddAlert
  \/ Rerun

\* the dashboard as it is: main is the only caller of add_alert
Next == Capture \/ Main

Spec == Init /\ [][Next]_vars

\* the processor behind its interface: process_packet on the capture
\* thread, add_alert with any rule, get_dataframe by one reader
ApiNext ==
  \/ Capture
  \/ GetDataframe
  \/ CopyData
  \/ \E r \in Rules : RegisterAlert(r)

ApiSpec == Init /\ [][ApiNext]_vars

\* the capture thread over a source that can fail, and one reader
SourceNext ==
  \/ Capture
  \/ SourceFails
  \/ GetDataframe
  \/ CopyData

SourceSpec == Init /\ [][SourceNext]_vars

\* the alert engine alone: the capture thread and a caller of add_alert
\* with three rules
AlertNext ==
  \/ Capture
  \/ \E r \in Rules \cup {SmallRule} : RegisterAlert(r)

AlertSpec == Init /\ [][AlertNext]_vars

\* the capture thread alone, fed every kind of packet
BuildNext ==
  \/ \E p \in AllPackets : Sniff(p)
  \/ TestIP
  \/ AcquireLock
  \/ BuildInfo
  \/ AddTransport
  \/ \E o \in GeoOutcomes : Geocode(o)
  \/ CheckAlert
  \/ AppendRecord
  \/ CountRecord
  \/ Evict
  \/ ReleaseLock

BuildSpec == Init /\ [][BuildNext]_vars

\* get_protocol_name on every protocol number an IP header can hold: sniff
\* has handed over one packet, and process_packet builds its record
ProtoNumbers == 0..MaxProto

NameInit ==
  /\ packet_data = <<>>
  /\ packet_count = 0
  /\ alerts = <<>>
  /\ lock = "free"
  /\ cpc = "try"
  /\ \E n \in ProtoNumbers : packet = [Gre EXCEPT !.proto = n]
  /\ packet_info = <<>>
  /\ ai = 1
  /\ geo = "pending"
  /\ mpc = "get"
  /\ df = DataFrame(<<>>)
  /\ runs = 0
  /\ now = 1
  /\ appended = <<>>
  /\ fired = <<>>
  /\ prev = <<>>
  /\ log = <<>>

NameNext == TestIP \/ AcquireLock \/ BuildInfo

NameSpec == NameInit /\ [][NameNext]_vars

----------------------------------------------------------------------------
(* Properties.                                                             *)

Min(a, b) == IF a < b THEN a ELSE b
Range(f) == {f[i] : i \in DOMAIN f}
Last(list, n) == SubSeq(list, Len(list) - n + 1, Len(list))

\* process_packet is between its append (line 96) and the end of its
\* eviction (line 101)
MidAppend == cpc \in {"count", "evict"}

\* C1: whenever process_packet is not in the middle of an append, the store
\* holds exactly the last min(N, Capacity) of the N records appended so far,
\* in the order they were appended: the oldest are evicted first.
C1_FifoRetention ==
  ~MidAppend =>
    packet_data = Last(appended, Min(Len(appended), Capacity))

\* more records were appended than the store keeps, and the call returned
C1_Witness ==
  /\ cpc = "sniff"
  /\ Len(appended) > Capacity
  /\ Len(packet_data) = Capacity

BaseFields ==
  {"timestamp", "source", "destination", "protocol", "size", "time_relative"}

\* C2: the snapshot a reader holds never has more than Capacity rows, and
\* each row is a record that was appended whole: the base fields are set
\* and the row is the frame's row of a record of the append history.
C2_SnapshotConsistent ==
  /\ Len(Rows(df)) <= Capacity
  /\ \A i \in DOMAIN Rows(df) :
       LET row == Rows(df)[i] IN
       \E j \in DOMAIN appended :
          /\ BaseFields \subseteq DOMAIN appended[j]
          /\ row = FrameRow(appended[j], DOMAIN row)

\* a full snapshot was taken while process_packet stood at the lock with
\* the next packet
C2_Witness ==
  /\ mpc = "viz"
  /\ cpc = "lock"
  /\ Len(Rows(df)) = Capacity

\* C3: packet_count is the number of records ever appended, whatever was
\* evicted; it lags by one only between the append of line 96 and the
\* increment of line 97.
C3_CountIsAppended ==
  packet_count = Len(appended) - (IF cpc = "count" THEN 1 ELSE 0)

\* a record was evicted and the counter went on
C3_Witness ==
  /\ cpc = "sniff"
  /\ packet_count = MaxPackets
  /\ packet_count > Len(packet_data)

\* the record qualifies for the rule main registers
Qualifies(record) == record.protocol = "TCP" /\ record.size > 1000

\* the warnings of main's rule for the record stamped t
LargeTcpWarnings(t) ==
  {k \in DOMAIN fired : fired[k].t = t /\ fired[k].msg = LargeTcpMsg}

\* C4: main's rule warns exactly once for every stored record that is TCP
\* and larger than 1000 bytes, never for another record, and the warnings
\* come in capture order.
C4_OneAlertPerQualifyingRecord ==
  /\ \A j \in DOMAIN appended :
       Cardinality(LargeTcpWarnings(appended[j].timestamp[2])) =
         (IF Qualifies(appended[j]) THEN 1 ELSE 0)
  /\ \A k \in DOMAIN fired : \A l \in DOMAIN fired :
       k < l => fired[k].t <= fired[l].t

\* the two ways C4 fails, each on its own
C4_NeverMissed ==
  \A j \in DOMAIN appended :
    Qualifies(appended[j]) =>
      LargeTcpWarnings(appended[j].timestamp[2]) # {}

C4_NeverRepeated ==
  \A j \in DOMAIN appended :
    Cardinality(LargeTcpWarnings(appended[j].timestamp[2])) <= 1

\* the predicate check_alerts is about to call raises
PredicateRaises ==
  /\ cpc = "alerts"
  /\ ai <= Len(alerts)
  /\ Condition(alerts[ai].cond, packet_info) = "raise"

\* C5: when a predicate raises, check_alerts goes on with the next rule and
\* the record stays on its way to the store.
C5_PredicateFailureIsolated ==
  [][(PredicateRaises /\ cpc' # cpc) =>
       (cpc' \in {"alerts", "append"} /\ packet_info' = packet_info)]_vars

\* C6: process_packet never stands at the lock while get_dataframe holds it.
C6_CaptureNeverWaitsForReader == ~(cpc = "lock" /\ lock = "main")

\* an exception is about to reach the handler of line 103
PipelineRaises == (cpc = "build" /\ packet.bad) \/ PredicateRaises

\* C7: an exception in the pipeline is caught and logged: process_packet
\* returns to sniff with the lock released and the store as it was, and the
\* lock is never left held between two calls.
C7_ErrorsAreContained ==
  /\ [](cpc \in {"sniff", "try", "lock"} => lock # "capture")
  /\ [][(PipelineRaises /\ cpc' # cpc) =>
          /\ cpc' = "sniff"
          /\ lock' = "free"
          /\ Len(log') = Len(log) + 1
          /\ packet_data' = packet_data
          /\ packet_count' = packet_count
          /\ alerts' = alerts]_vars

\* a predicate raised on a record after an earlier one was stored; the call
\* has returned and the lock is free
C7_Witness ==
  /\ cpc = "sniff"
  /\ lock = "free"
  /\ log = <<"Error processing packet: " \o KeyError>>
  /\ packet_count > 0

\* C8: a lookup that raises or finds nothing leaves the record as built,
\* without latitude and longitude, and the call goes on to the alerts with
\* the lock held; no record has one coordinate without the other.
HasGeo(record) == "latitude" \in DOMAIN record
C8_GeoFailureIsHarmless ==
  /\ [](\A j \in DOMAIN appended :
          ("latitude" \in DOMAIN appended[j])
            <=> ("longitude" \in DOMAIN appended[j]))
  /\ [][(cpc = "geo" /\ cpc' # cpc) =>
          /\ cpc' = "alerts"
          /\ lock' = lock
          /\ packet' = packet
          /\ geo' \in GeoOutcomes
          /\ (geo' # "location" =>
                /\ packet_info' = packet_info
                /\ ~HasGeo(packet_info'))
          /\ (geo' = "location" =>
                /\ HasGeo(packet_info')
                /\ \A f \in DOMAIN packet_info :
                     packet_info'[f] = packet_info[f])]_vars

\* a record whose lookup raised was warned about, appended and counted
C8_Witness ==
  /\ cpc = "exit"
  /\ geo = "raise"
  /\ ~HasGeo(packet_info)
  /\ packet_info \in Range(packet_data)
  /\ packet_count = Len(appended)
  /\ \E k \in DOMAIN fired : fired[k].t = now

\* C9: a snapshot is a copy.  A step of the capture thread leaves the rows
\* of the reader's frame as they are; create_visualizations and
\* get_dataframe leave packet_data, packet_count and the rules as they are.
C9_SnapshotIsACopy ==
  [][/\ (mpc' = mpc => Rows(df)' = Rows(df))
     /\ ((mpc \in {"get", "copy", "viz"} /\ mpc' # mpc) =>
           UNCHANGED <<packet_data, packet_count, alerts>>)]_vars

\* the reader rewrote the timestamps of a snapshot that the store has since
\* moved away from
C9_Witness ==
  /\ mpc = "alert"
  /\ Len(Rows(df)) = Capacity
  /\ Ids(Rows(df)) # Ids(packet_data)
  /\ Len(appended) > Capacity

\* the records of the previous snapshot that the current one still shows,
\* and the other way round
Kept == SelectSeq(prev, LAMBDA t : t \in Range(Ids(Rows(df))))
Known == SelectSeq(Ids(Rows(df)), LAMBDA t : t \in Range(prev))

\* C10: of two successive snapshots, the records in both are in the same
\* order in both, and they are the end of the first and the start of the
\* second.
C10_SnapshotsMonotonic ==
  /\ Kept = Known
  /\ Kept = Last(prev, Len(Kept))
  /\ Known = SubSeq(Ids(Rows(df)), 1, Len(Known))

\* the second snapshot lost a record of the first, kept one and gained one
C10_Witness ==
  /\ Len(Kept) > 0
  /\ Len(Kept) < Len(prev)
  /\ Len(Known) < Len(Rows(df))

\* the rules that warned about the record stamped t, in the order of the
\* warnings
WarnedRules(history, t) ==
  LET mine == SelectSeq(history, LAMBDA w : w.t = t) IN
  [k \in DOMAIN mine |-> mine[k].rule]

\* the rules the record matches, in registration order
MatchingRules(record) ==
  SelectSeq([i \in 1..Len(alerts) |-> i],
            LAMBDA i : Condition(alerts[i].cond, record) = "true")

\* C11: when check_alerts is done with a record, it has warned once for
\* each rule the record matches, in registration order; warnings come in
\* capture order; add_alert only ever adds a rule at the end.
C11_AlertsInRegistrationOrder ==
  /\ [](\A k \in DOMAIN fired : \A l \in DOMAIN fired :
          k < l => fired[k].t <= fired[l].t)
  /\ [][/\ Len(alerts') >= Len(alerts)
        /\ SubSeq(alerts', 1, Len(alerts)) = alerts
        /\ ((cpc = "alerts" /\ cpc' # cpc) =>
              WarnedRules(fired', now) = MatchingRules(packet_info))]_vars

\* C12: process_packet of a packet without an IP layer returns at once: it
\* does not take the lock and leaves the store, the rules, the warnings,
\* the log and the lookup as they were.
C12_NonIpPacketIgnored ==
  /\ []((cpc = "try" /\ ~packet.ip) => lock # "capture")
  /\ [][(cpc = "try" /\ ~packet.ip /\ cpc' # cpc) =>
          /\ cpc' = "sniff"
          /\ lock' = lock
          /\ geo' = "pending"
          /\ UNCHANGED <<packet_data, packet_count, alerts, appended,
                         fired, log>>]_vars

\* a packet without an IP layer came and went while the reader held the
\* lock: nothing was stored or logged
C12_Witness ==
  /\ cpc = "sniff"
  /\ now = 1
  /\ lock = "main"
  /\ appended = <<>>
  /\ packet_count = 0
  /\ log = <<>>

TransportFields == {"src_port", "dst_port", "tcp_flags"}

\* the transport fields a record carries
Carried(record) == DOMAIN record \cap TransportFields

\* the record of the packet in hand has its transport fields, and once
\* appended it is the newest record of the store
Built == cpc \in {"geo", "alerts", "append", "count", "evict", "exit"}
Stored == cpc \in {"count", "evict", "exit"}

\* C13: a record carries the TCP ports and flags exactly when its packet
\* has a TCP layer, the UDP ports and no flags exactly when it has a UDP
\* layer and no TCP layer, and no transport field otherwise; the record is
\* stored with these fields.
C13_TransportMatchesHeaders ==
  /\ Built =>
       /\ (Carried(packet_info) = TransportFields) <=> packet.tcp
       /\ packet.tcp =>
            /\ packet_info.src_port = packet.sport
            /\ packet_info.dst_port = packet.dport
            /\ packet_info.tcp_flags = packet.flags
       /\ (Carried(packet_info) = {"src_port", "dst_port"})
            <=> (packet.udp /\ ~packet.tcp)
       /\ (packet.udp /\ ~packet.tcp) =>
            /\ packet_info.src_port = packet.sport
            /\ packet_info.dst_port = packet.dport
       /\ (Carried(packet_info) = {}) <=> (~packet.tcp /\ ~packet.udp)
  /\ Stored => appended[Len(appended)] = packet_info
  /\ \A i \in DOMAIN packet_data :
       Carried(packet_data[i]) \in
         {TransportFields, {"src_port", "dst_port"}, {}}

\* the record of a packet with both layers is stored as a TCP record
C13_Witness ==
  /\ cpc = "exit"
  /\ packet.tcp
  /\ packet.udp
  /\ packet_info \in Range(packet_data)
  /\ packet_info.tcp_flags = 16

\* the decimal digits of a natural number
Digit == <<"0", "1", "2", "3", "4", "5", "6", "7", "8", "9">>
RECURSIVE Decimal(_)
Decimal(n) ==
  IF n < 10 THEN Digit[n + 1] ELSE Decimal(n \div 10) \o Digit[(n % 10) + 1]

\* C14: get_protocol_name gives ICMP, TCP and UDP for 1, 6 and 17, and for
\* any other number n the label OTHER(n) with n in decimal; no other number
\* has the label of n; the call changes nothing of the processor.
C14_ProtocolNames ==
  /\ [](cpc = "transport" =>
          LET n == packet.proto
              name == packet_info.protocol
          IN /\ n = 1 => name = "ICMP"
             /\ n = 6 => name = "TCP"
             /\ n = 17 => name = "UDP"
             /\ n \notin {1, 6, 17} => name = "OTHER(" \o Decimal(n) \o ")"
             /\ \A m \in ProtoNumbers :
                  get_protocol_name(m) = name => m = n)
  /\ [][(cpc = "build" /\ cpc' # cpc) =>
          UNCHANGED <<packet_data, packet_count, alerts, appended, fired>>]_vars

\* the record of a GRE packet is labelled with its number
C14_Witness ==
  /\ cpc = "transport"
  /\ packet.proto = 47
  /\ packet_info.protocol = "OTHER(47)"

\* what a caller holding the processor can read of it
Observable == <<packet_data, packet_count, alerts>>

\* C15: when the capture source fails for good, the end of capture is
\* surfaced: the step that ends the capture thread changes something the
\* caller can observe; the records stored before it stay readable.
C15_SourceFailureSurfaced ==
  /\ [][(cpc # "dead" /\ cpc' = "dead") => Observable' # Observable]_vars
  /\ [][(cpc = "dead" /\ mpc = "copy") => Ids(Rows(df')) = Ids(packet_data)]_vars

\* C16: the capture thread never holds the lock while it is in the
\* geocoding lookup or in the loop that emits alerts.
C16_LockOnlyForMemoryWork == ~(lock = "capture" /\ cpc \in {"geo", "alerts"})

\* C17: whenever the capture thread does not hold the lock, the store holds
\* min(packet_count, Capacity) records; while it holds the lock the store is
\* at most one record over Capacity; the store only shrinks in the eviction
\* of lines 100-101, by one record.
C17_LengthIsMinOfCountAndCapacity ==
  /\ [](lock # "capture" => Len(packet_data) = Min(packet_count, Capacity))
  /\ [](Len(packet_data) <= Capacity + 1)
  /\ [][Len(packet_data') < Len(packet_data) =>
          /\ cpc = "evict"
          /\ Len(packet_data') = Len(packet_data) - 1]_vars

\* the store is one over its capacity, between the append and the eviction
C17_Witness ==
  /\ lock = "capture"
  /\ cpc = "evict"
  /\ Len(packet_data) = Capacity + 1

\* the pipeline stages of process_packet after which nothing can raise
Committing == cpc \in {"append", "count", "evict", "exit"}

Readable == Range(Ids(packet_data)) \cup Range(Ids(Rows(df)))

\* C19: check_alerts leaves its loop only when it has gone through every
\* registered rule, having warned for each rule the record matches; a warning
\* is emitted only while its record is in no snapshot and not in the store;
\* a record enters the store only after its loop is over.
C19_AlertsBeforeVisibility ==
  [][/\ (cpc = "alerts" /\ cpc' = "append") =>
          /\ ai > Len(alerts)
          /\ WarnedRules(fired, now) = MatchingRules(packet_info)
     /\ fired' # fired =>
          /\ Len(fired') = Len(fired) + 1
          /\ fired'[Len(fired')].t = now
          /\ now \notin Readable'
     /\ (now \in Readable' /\ now \notin Readable) =>
          /\ cpc = "append"
          /\ fired' = fired]_vars

\* a snapshot holds a record that was warned about
C19_Witness ==
  /\ mpc = "viz"
  /\ \E k \in DOMAIN fired : fired[k].t \in Range(Ids(Rows(df)))

====
